---- MODULE Spec2Model ----
(***************************************************************************)
(* Model of packages/backend-test-utils/src/next/wiring/TestBackend.ts:    *)
(* the extension-point ownership resolver                                  *)
(* (createExtensionPointTestModules), the assembly of the service factory  *)
(* list, the root HTTP router and discovery factories, startTestBackend    *)
(* and the process-wide cleanup list with its afterAll teardown pass.      *)
(***************************************************************************)
EXTENDS Integers, Sequences, FiniteSets, TLC

\* ------------------------------------------------------------------ bounds
MaxFeatures == 2
MaxDeps == 2
MaxEps == 2
MaxServices == 2
MaxCalls == 2

\* ----------------------------------------------------------------- helpers
Range(s) == {s[i] : i \in DOMAIN s}

SeqsUpTo(S, n) == UNION {[1..k -> S] : k \in 0..n}

RECURSIVE FlatMapRegs(_)
FlatMapRegs(fs) ==
  IF fs = <<>> THEN <<>> ELSE Head(fs).regs \o FlatMapRegs(Tail(fs))

\* Keys of a JS Map/Set built from a sequence: first insertion fixes the order.
RECURSIVE DedupKeys(_)
DedupKeys(s) ==
  IF s = <<>> THEN <<>>
  ELSE LET rest == DedupKeys(SubSeq(s, 1, Len(s) - 1))
           last == s[Len(s)]
       IN IF last \in Range(rest) THEN rest ELSE Append(rest, last)

\* ------------------------------------------------- features and registrations
BackendFeatureType == "@backstage/BackendFeature"
SupportedVersion == "v1"
TestModuleId == "testExtensionPointRegistration"

EpIds == {"E", "F"}

NoError == [kind |-> "none", values |-> <<>>]

\* A registration as returned by getRegistrations(): deps are
\* Object.values(registration.init.deps) reduced to their ids, in key order.
ModuleRegistrations ==
  {[type |-> "module", pluginId |-> "p1", moduleId |-> "m", deps |-> d,
    extensionPoints |-> <<>>] : d \in SeqsUpTo(EpIds, MaxDeps)}
  \cup
  {[type |-> "module", pluginId |-> "p2", moduleId |-> "m", deps |-> d,
    extensionPoints |-> <<>>] : d \in SeqsUpTo(EpIds, 1)}

PluginRegistrations ==
  {[type |-> "plugin", pluginId |-> "p1", moduleId |-> "", deps |-> <<"E">>,
    extensionPoints |-> <<>>]}

Registrations == ModuleRegistrations \cup PluginRegistrations

InvalidFeatures ==
  {[type |-> "@backstage/Other", version |-> "v1",
    regs |-> <<[type |-> "module", pluginId |-> "p1", moduleId |-> "m",
                deps |-> <<"E">>, extensionPoints |-> <<>>]>>],
   [type |-> BackendFeatureType, version |-> "v2",
    regs |-> <<[type |-> "module", pluginId |-> "p1", moduleId |-> "m",
                deps |-> <<"F">>, extensionPoints |-> <<>>]>>]}

Features ==
  {[type |-> BackendFeatureType, version |-> SupportedVersion, regs |-> <<r>>] :
     r \in Registrations} \cup InvalidFeatures

\* An extension point tuple [ref, impl], the ref reduced to its id.
EpTuples ==
  {[id |-> "E", impl |-> "implE"], [id |-> "E", impl |-> "implE2"],
   [id |-> "F", impl |-> "implF"]}

\* The optional extensionPoints argument: undefined, or a list of tuples.
Absent == [present |-> FALSE, tuples |-> <<>>]
Given(tuples) == [present |-> TRUE, tuples |-> tuples]

\* --------------------------------------- createExtensionPointTestModules
\* The flatMap that obtains a feature's registrations before it looks at the
\* feature's type and version.
RECURSIVE CollectRegistrationsInvokeFirst(_, _, _, _)
CollectRegistrationsInvokeFirst(features, i, regs, invoked) ==
  IF i > Len(features)
  THEN [error |-> NoError, registrations |-> regs, invoked |-> invoked]
  ELSE LET feature == features[i] IN
    IF feature.type # BackendFeatureType
    THEN [error |-> [kind |-> "invalid type", values |-> <<feature.type>>],
          registrations |-> <<>>, invoked |-> Append(invoked, i)]
    ELSE IF feature.version # SupportedVersion
    THEN [error |-> [kind |-> "invalid version", values |-> <<feature.version>>],
          registrations |-> <<>>, invoked |-> Append(invoked, i)]
    ELSE CollectRegistrationsInvokeFirst(features, i + 1, regs \o feature.regs,
                                         Append(invoked, i))

\* features.flatMap(...): validates each feature in order and collects its
\* registrations; the first invalid feature throws.
RECURSIVE CollectRegistrations(_, _, _, _)
CollectRegistrations(features, i, regs, invoked) ==
  IF i > Len(features)
  THEN [error |-> NoError, registrations |-> regs, invoked |-> invoked]
  ELSE LET feature == features[i] IN
    IF feature.type # BackendFeatureType
    THEN [error |-> [kind |-> "invalid type", values |-> <<feature.type>>],
          registrations |-> <<>>, invoked |-> invoked]
    ELSE IF feature.version # SupportedVersion
    THEN [error |-> [kind |-> "invalid version", values |-> <<feature.version>>],
          registrations |-> <<>>, invoked |-> invoked]
    ELSE CollectRegistrations(features, i + 1, regs \o feature.regs,
                              Append(invoked, i))

\* new Map(extensionPointTuples.map(ep => [ep[0].id, ep])).get(id):
\* a later tuple with the same id replaces the earlier one.
ExtensionPointMapGet(tuples, id) ==
  LET idx == {i \in DOMAIN tuples : tuples[i].id = id}
  IN tuples[CHOOSE i \in idx : \A j \in idx : j <= i]

\* new Set(extensionPointMap.keys())
ExtensionPointKeys(tuples) ==
  DedupKeys([i \in DOMAIN tuples |-> tuples[i].id])

\* The loop that starts a new list of points for every depending registration
\* instead of looking the plugin up first.
PushPointsAlwaysNew(byPlugin, pluginId, ids) ==
  Append(byPlugin, [pluginId |-> pluginId, points |-> ids])

\* Lines 135-143: points = byPlugin.get(pluginId) (created when missing),
\* then every id of testDep is pushed.
PushPoints(byPlugin, pluginId, ids) ==
  IF \E k \in DOMAIN byPlugin : byPlugin[k].pluginId = pluginId
  THEN [k \in DOMAIN byPlugin |->
          IF byPlugin[k].pluginId = pluginId
          THEN [byPlugin[k] EXCEPT !.points = @ \o ids]
          ELSE byPlugin[k]]
  ELSE Append(byPlugin, [pluginId |-> pluginId, points |-> ids])

\* The scan that lets a registration of any kind confer ownership.
ScanRegistrationAnyType(st, registration) ==
  LET testDep ==
        SelectSeq(registration.deps, LAMBDA d : d \in Range(st.toSort))
  IN IF Len(testDep) > 0
     THEN [toSort |-> SelectSeq(st.toSort, LAMBDA x : x \notin Range(testDep)),
           byPlugin |-> PushPoints(st.byPlugin, registration.pluginId, testDep)]
     ELSE st

\* One iteration of the loop over registrations (lines 129-146).
ScanRegistration(st, registration) ==
  IF registration.type = "module"
  THEN LET testDep ==
             SelectSeq(registration.deps, LAMBDA d : d \in Range(st.toSort))
       IN IF Len(testDep) > 0
          THEN [toSort |-> SelectSeq(st.toSort, LAMBDA x : x \notin Range(testDep)),
                byPlugin |-> PushPoints(st.byPlugin, registration.pluginId, testDep)]
          ELSE st
  ELSE st

RECURSIVE ScanAll(_, _)
ScanAll(st, regs) ==
  IF regs = <<>> THEN st ELSE ScanAll(ScanRegistration(st, Head(regs)), Tail(regs))

\* The error message that lists only the first pending id.
UnresolvedErrorFirstOnly(toSort) ==
  [kind |-> "unresolved", values |-> <<toSort[1]>>]

\* Lines 148-156: the error lists every id left in extensionPointsToSort.
UnresolvedError(toSort) ==
  [kind |-> "unresolved", values |-> toSort]

\* Lines 160-175: one module per entry of extensionPointsByPlugin; its register
\* callback registers the tuples of the plugin's ids and an init without deps.
SynthesizeModule(tuples, entry) ==
  [type |-> BackendFeatureType, version |-> SupportedVersion,
   regs |-> <<[type |-> "module", pluginId |-> entry.pluginId,
               moduleId |-> TestModuleId, deps |-> <<>>,
               extensionPoints |->
                 [k \in DOMAIN entry.points |->
                    ExtensionPointMapGet(tuples, entry.points[k])]]>>]

\* The early return that also treats an empty list of tuples as no option.
createExtensionPointTestModulesEmptyIsAbsent(features, extensionPointTuples) ==
  IF ~extensionPointTuples.present \/ extensionPointTuples.tuples = <<>>
  THEN [error |-> NoError, modules |-> <<>>, invoked |-> <<>>, byPlugin |-> <<>>]
  ELSE
    LET collected == CollectRegistrations(features, 1, <<>>, <<>>) IN
    IF collected.error # NoError
    THEN [error |-> collected.error, modules |-> <<>>,
          invoked |-> collected.invoked, byPlugin |-> <<>>]
    ELSE
      LET tuples == extensionPointTuples.tuples
          st == ScanAll([toSort |-> ExtensionPointKeys(tuples),
                         byPlugin |-> <<>>],
                        collected.registrations)
      IN IF Len(st.toSort) > 0
         THEN [error |-> UnresolvedError(st.toSort), modules |-> <<>>,
               invoked |-> collected.invoked, byPlugin |-> st.byPlugin]
         ELSE [error |-> NoError,
               modules |-> [k \in DOMAIN st.byPlugin |->
                              SynthesizeModule(tuples, st.byPlugin[k])],
               invoked |-> collected.invoked, byPlugin |-> st.byPlugin]

\* Lines 97-178: no option, no work; otherwise validate and collect, scan for
\* owners, throw on ids left pending, and synthesize one module per plugin.
createExtensionPointTestModules(features, extensionPointTuples) ==
  IF ~extensionPointTuples.present
  THEN [error |-> NoError, modules |-> <<>>, invoked |-> <<>>, byPlugin |-> <<>>]
  ELSE
    LET collected == CollectRegistrations(features, 1, <<>>, <<>>) IN
    IF collected.error # NoError
    THEN [error |-> collected.error, modules |-> <<>>,
          invoked |-> collected.invoked, byPlugin |-> <<>>]
    ELSE
      LET tuples == extensionPointTuples.tuples
          st == ScanAll([toSort |-> ExtensionPointKeys(tuples),
                         byPlugin |-> <<>>],
                        collected.registrations)
      IN IF Len(st.toSort) > 0
         THEN [error |-> UnresolvedError(st.toSort), modules |-> <<>>,
               invoked |-> collected.invoked, byPlugin |-> st.byPlugin]
         ELSE [error |-> NoError,
               modules |-> [k \in DOMAIN st.byPlugin |->
                              SynthesizeModule(tuples, st.byPlugin[k])],
               invoked |-> collected.invoked, byPlugin |-> st.byPlugin]

\* ------------------------------------------------------- service factories
RootHttpRouterId == "rootHttpRouter"
DiscoveryId == "discovery"

\* const defaultServiceFactories (lines 77-91), by the service each one provides.
DefaultServiceIds ==
  <<"cache", "rootConfig", "database", "httpRouter", "identity", "lifecycle",
    "logger", "permissions", "rootLifecycle", "rootLogger", "scheduler",
    "tokenManager", "urlReader">>

ScopeOf(id) ==
  IF id \in {"rootConfig", "rootLifecycle", "rootLogger", RootHttpRouterId,
             DiscoveryId}
  THEN "root" ELSE "plugin"

Ref(id) == [id |-> id, scope |-> ScopeOf(id)]

defaultServiceFactories ==
  [k \in DOMAIN DefaultServiceIds |->
     [service |-> Ref(DefaultServiceIds[k]), deps |-> <<>>,
      impl |-> "mock", made |-> "default"]]

\* createServiceFactory({service: coreServices.rootHttpRouter, deps: {config,
\* lifecycle, rootLogger}, ...}) of one startTestBackend call.
rootHttpRouterFactory ==
  [service |-> Ref(RootHttpRouterId),
   deps |-> <<"rootConfig", "rootLifecycle", "rootLogger">>,
   impl |-> "router", made |-> "builtin"]

\* createServiceFactory({service: coreServices.discovery, deps: {rootHttpRouter}})
discoveryFactory ==
  [service |-> Ref(DiscoveryId), deps |-> <<RootHttpRouterId>>,
   impl |-> "HostDiscovery", made |-> "builtin"]

\* One entry of options.services: a ServiceFactory ("factory"), a function
\* returning one ("function"), or a [ref, impl] pair ("tuple").
CallerServiceIds == {RootHttpRouterId, DiscoveryId, "rootLifecycle", "custom"}

\* A ready-made factory, or the one a function returns, declares its own
\* dependencies; a pair has none to declare.
ServiceDefs ==
  {[kind |-> k, ref |-> Ref(id), deps |-> d, impl |-> "fake"] :
     k \in {"factory", "function"}, id \in CallerServiceIds,
     d \in {<<>>, <<"rootConfig">>}}
  \cup {[kind |-> "tuple", ref |-> Ref(id), deps |-> <<>>, impl |-> "fake"] :
          id \in CallerServiceIds}

\* The wrapper that builds every pair's factory as a root-scoped one.
ServiceDefToFactoryRootOnly(serviceDef) ==
  IF serviceDef.kind = "tuple"
  THEN [service |-> [id |-> serviceDef.ref.id, scope |-> "root"],
        deps |-> <<>>, impl |-> serviceDef.impl, made |-> "wrapped"]
  ELSE IF serviceDef.kind = "function"
  THEN [service |-> serviceDef.ref, deps |-> serviceDef.deps,
        impl |-> serviceDef.impl, made |-> "called"]
  ELSE [service |-> serviceDef.ref, deps |-> serviceDef.deps,
        impl |-> serviceDef.impl, made |-> "given"]

\* The body of services.map(...) (lines 250-272).
ServiceDefToFactory(serviceDef) ==
  IF serviceDef.kind = "tuple"
  THEN [service |-> serviceDef.ref, deps |-> <<>>, impl |-> serviceDef.impl,
        made |-> "wrapped"]
  ELSE IF serviceDef.kind = "function"
  THEN [service |-> serviceDef.ref, deps |-> serviceDef.deps,
        impl |-> serviceDef.impl, made |-> "called"]
  ELSE [service |-> serviceDef.ref, deps |-> serviceDef.deps,
        impl |-> serviceDef.impl, made |-> "given"]

HasServiceId(factories, id) ==
  \E k \in DOMAIN factories : factories[k].service.id = id

\* The loop that pushes every default, whatever the caller supplied.
RECURSIVE AppendDefaultsAlways(_, _)
AppendDefaultsAlways(factories, defaults) ==
  IF defaults = <<>> THEN factories
  ELSE AppendDefaultsAlways(Append(factories, Head(defaults)), Tail(defaults))

\* Lines 274-278: a default is pushed unless factories already has its id.
RECURSIVE AppendDefaults(_, _)
AppendDefaults(factories, defaults) ==
  IF defaults = <<>> THEN factories
  ELSE AppendDefaults(
         IF ~HasServiceId(factories, Head(defaults).service.id)
         THEN Append(factories, Head(defaults))
         ELSE factories,
         Tail(defaults))

\* Lines 250-283: the services option handed to createSpecializedBackend.
BackendServices(services) ==
  AppendDefaults([k \in DOMAIN services |-> ServiceDefToFactory(services[k])],
                 defaultServiceFactories)
    \o <<rootHttpRouterFactory, discoveryFactory>>

\* createSpecializedBackend is not part of the modelled file.  What it does
\* with two factories of one service id is left open: it may reject the list
\* or keep the first or the last factory of each id.
DuplicatePolicies == {"reject", "first", "last"}

DuplicateIds(factories) ==
  {factories[i].service.id : i \in
     {i \in DOMAIN factories :
        \E j \in DOMAIN factories : j # i /\
           factories[j].service.id = factories[i].service.id}}

RegistryRejects(factories, policy) ==
  policy = "reject" /\ DuplicateIds(factories) # {}

\* The factory in effect for a service id.
RegistryGet(factories, policy, id) ==
  LET idx == {i \in DOMAIN factories : factories[i].service.id = id}
  IN factories[CHOOSE i \in idx :
                 \A j \in idx : IF policy = "first" THEN i <= j ELSE j <= i]

\* ------------------------------------------------------------ HTTP server
\* createHttpServer(app, {listen: {host: '', port: 0}}, ...): port 0 asks the
\* system for an ephemeral port, known once the server listens.
RequestedPort == 0

Undefined == [state |-> "undefined", port |-> RequestedPort]
CreatedServer == [state |-> "created", port |-> RequestedPort]

\* The port the system binds the listener of call c to: listeners of one
\* process never share a port.
BoundPort(c) == 49152 + c

\* ---------------------------------------------------------------- Backend
\* backend.add(feature): the features are added in order until one is invalid.
ValidFeature(feature) ==
  feature.type = BackendFeatureType /\ feature.version = SupportedVersion

RECURSIVE ValidPrefix(_)
ValidPrefix(fs) ==
  IF fs = <<>> \/ ~ValidFeature(Head(fs)) THEN <<>>
  ELSE <<Head(fs)>> \o ValidPrefix(Tail(fs))

InEffect(factories, policy) ==
  [router |-> RegistryGet(factories, policy, RootHttpRouterId).made,
   discovery |-> RegistryGet(factories, policy, DiscoveryId).made,
   rootLifecycle |-> RegistryGet(factories, policy, "rootLifecycle").made]

NothingInEffect == [router |-> "none", discovery |-> "none", rootLifecycle |-> "none"]

\* ------------------------------------------------------- startTestBackend
\* startTestBackend that resolves the extension points only after the
\* features were added and backend.start() was called.
startTestBackendResolveLate(services, extensionPoints, features, policy) ==
  LET factories == BackendServices(services)
      resolved == createExtensionPointTestModules(features, extensionPoints)
  IN IF RegistryRejects(factories, policy)
     THEN [pc |-> "rejected:create", bstate |-> "None", pushed |-> FALSE,
           inEffect |-> NothingInEffect, added |-> <<>>]
     ELSE IF ValidPrefix(features) # features
     THEN [pc |-> "rejected:add", bstate |-> "Created", pushed |-> TRUE,
           inEffect |-> InEffect(factories, policy),
           added |-> ValidPrefix(features)]
     ELSE IF resolved.error # NoError
     THEN [pc |-> "rejected:resolve", bstate |-> "Starting", pushed |-> TRUE,
           inEffect |-> InEffect(factories, policy), added |-> features]
     ELSE [pc |-> "starting", bstate |-> "Starting", pushed |-> TRUE,
           inEffect |-> InEffect(factories, policy),
           added |-> features \o resolved.modules]

\* startTestBackend that puts the backend on the cleanup list only once the
\* features have been added.
startTestBackendPushLate(services, extensionPoints, features, policy) ==
  LET factories == BackendServices(services)
      resolved == createExtensionPointTestModules(features, extensionPoints)
      toAdd == resolved.modules \o features
  IN IF RegistryRejects(factories, policy)
     THEN [pc |-> "rejected:create", bstate |-> "None", pushed |-> FALSE,
           inEffect |-> NothingInEffect, added |-> <<>>]
     ELSE IF resolved.error # NoError
     THEN [pc |-> "rejected:resolve", bstate |-> "Created", pushed |-> FALSE,
           inEffect |-> InEffect(factories, policy), added |-> <<>>]
     ELSE IF ValidPrefix(toAdd) # toAdd
     THEN [pc |-> "rejected:add", bstate |-> "Created", pushed |-> FALSE,
           inEffect |-> InEffect(factories, policy),
           added |-> ValidPrefix(toAdd)]
     ELSE [pc |-> "starting", bstate |-> "Starting", pushed |-> TRUE,
           inEffect |-> InEffect(factories, policy), added |-> toAdd]

\* startTestBackend that adds the caller's features before the synthesized
\* extension-point modules.
startTestBackendFeaturesFirst(services, extensionPoints, features, policy) ==
  LET factories == BackendServices(services)
      resolved == createExtensionPointTestModules(features, extensionPoints)
      toAdd == features \o resolved.modules
  IN IF RegistryRejects(factories, policy)
     THEN [pc |-> "rejected:create", bstate |-> "None", pushed |-> FALSE,
           inEffect |-> NothingInEffect, added |-> <<>>]
     ELSE IF resolved.error # NoError
     THEN [pc |-> "rejected:resolve", bstate |-> "Created", pushed |-> TRUE,
           inEffect |-> InEffect(factories, policy), added |-> <<>>]
     ELSE IF ValidPrefix(toAdd) # toAdd
     THEN [pc |-> "rejected:add", bstate |-> "Created", pushed |-> TRUE,
           inEffect |-> InEffect(factories, policy),
           added |-> ValidPrefix(toAdd)]
     ELSE [pc |-> "starting", bstate |-> "Starting", pushed |-> TRUE,
           inEffect |-> InEffect(factories, policy), added |-> toAdd]

\* Lines 250-295, the part of startTestBackend that runs without suspending:
\* build the factory list, create the backend, push it on the cleanup list,
\* resolve the extension points, add the synthesized modules and then the
\* features, call backend.start().  The outcome is where the call stands.
startTestBackendSync(services, extensionPoints, features, policy) ==
  LET factories == BackendServices(services)
      resolved == createExtensionPointTestModules(features, extensionPoints)
      toAdd == resolved.modules \o features
  IN IF RegistryRejects(factories, policy)
     THEN [pc |-> "rejected:create", bstate |-> "None", pushed |-> FALSE,
           inEffect |-> NothingInEffect, added |-> <<>>]
     ELSE IF resolved.error # NoError
     THEN [pc |-> "rejected:resolve", bstate |-> "Created", pushed |-> TRUE,
           inEffect |-> InEffect(factories, policy), added |-> <<>>]
     ELSE IF ValidPrefix(toAdd) # toAdd
     THEN [pc |-> "rejected:add", bstate |-> "Created", pushed |-> TRUE,
           inEffect |-> InEffect(factories, policy),
           added |-> ValidPrefix(toAdd)]
     ELSE [pc |-> "starting", bstate |-> "Starting", pushed |-> TRUE,
           inEffect |-> InEffect(factories, policy), added |-> toAdd]

\* The discovery factory that reads the port the server was asked for.
discoveryFactoryRunRequestedPort(srv) ==
  IF srv.state = "undefined"
  THEN [status |-> "error", message |-> "Test server not started yet",
        port |-> RequestedPort]
  ELSE [status |-> "ok", message |-> "", port |-> RequestedPort]

\* The discovery factory without its guard.
discoveryFactoryRunUnguarded(srv) ==
  [status |-> "ok", message |-> "", port |-> srv.port]

\* Lines 236-247: the discovery factory; port is the port of the base URL
\* http://localhost:<port> it configures.
discoveryFactoryRun(srv) ==
  IF srv.state = "undefined"
  THEN [status |-> "error", message |-> "Test server not started yet",
        port |-> RequestedPort]
  ELSE [status |-> "ok", message |-> "", port |-> srv.port]

NoDiscovery == [status |-> "none", message |-> "", port |-> RequestedPort]

\* The accessor that hands out whatever the variable holds.
ServerAccessorUnchecked(srv) ==
  [throws |-> FALSE, message |-> "", value |-> srv]

\* Lines 298-303: get server() of the returned TestBackend.
ServerAccessor(srv) ==
  IF srv.state = "undefined"
  THEN [throws |-> TRUE, message |-> "TestBackend server is not available",
        value |-> Undefined]
  ELSE [throws |-> FALSE, message |-> "", value |-> srv]

\* ------------------------------------------------------------------- state
VARIABLES
  epIn,      \* arguments of a createExtensionPointTestModules call
  epOut,     \* its outcome
  epPc,      \* "ready" before the call, "done" after it
  svcIn,     \* a services option
  svcOut,    \* the factory list built from it
  svcPc,     \* "ready" before the list is built, "done" after it
  pc,        \* per startTestBackend call: where the call stands
  bstate,    \* per call: lifecycle state of the Backend it created
  inEffect,  \* per call: which factory provides the services of interest
  added,     \* per call: the features given to backend.add, in order
  fac,       \* per call: the step the root HTTP router factory is suspended at
  instantiated, \* per call: the services the backend has instantiated
  server,    \* per call: the variable `server` of the call's closure
  hooks,     \* per call: the shutdown hooks handed to the root lifecycle
  pendingHooks, \* per call: hooks a running stop() still has to run
  discovery, \* per call: outcome of the discovery factory
  backendInstancesToCleanUp, \* the process-wide cleanup list
  tdPc,      \* the afterAll teardown pass: "idle" or "awaiting"
  tdPending, \* backends whose stop() the pass is still awaiting
  tdLogged,  \* backends whose stop() failure the pass has logged
  cleared,   \* backends a teardown pass has removed from the cleanup list
  graph,       \* the declared dependencies of every service factory
  instances,   \* the instances created so far, in the order the factories ran
  requests,    \* how often each instance has been asked for by a dependent
  resolverPc,  \* "idle", "created", "failed" (configuration error),
               \* "resolving", "stopped"
  usageErrors, \* how many start() calls were refused as usage errors
  lcHooks,     \* the shutdown hooks of a root lifecycle, in registration order
  lcPending,   \* the hooks stop() has still to run
  lcRan,       \* the hooks stop() has run, in the order it ran them
  lcLogged,    \* the hooks whose failure stop() has logged
  lcState      \* "idle", "Running", "Stopping", "Stopped"

epVars == <<epIn, epOut, epPc>>
svcVars == <<svcIn, svcOut, svcPc>>
callVars == <<pc, bstate, inEffect, added, fac, instantiated, server, hooks,
              pendingHooks, discovery>>
cleanupVars == <<backendInstancesToCleanUp, tdPc, tdPending, tdLogged, cleared>>
graphVars == <<graph, instances, requests, resolverPc, usageErrors>>
lcVars == <<lcHooks, lcPending, lcRan, lcLogged, lcState>>
backendVars == <<graphVars, lcVars>>
vars == <<epIn, epOut, epPc, svcIn, svcOut, svcPc, pc, bstate, inEffect, added,
          fac, instantiated, server, hooks, pendingHooks, discovery,
          backendInstancesToCleanUp, tdPc, tdPending, tdLogged, cleared,
          graph, instances, requests, resolverPc, usageErrors,
          lcHooks, lcPending, lcRan, lcLogged, lcState>>

Calls == 1..MaxCalls

NoOutcome == [error |-> NoError, modules |-> <<>>, invoked |-> <<>>,
              byPlugin |-> <<>>]

ExtensionPointInputs ==
  {Given(t) : t \in SeqsUpTo(EpTuples, MaxEps)} \cup {Absent}

ResolveIdle ==
  /\ epIn = [features |-> <<>>, extensionPoints |-> Absent]
  /\ epOut = NoOutcome
  /\ epPc = "idle"

FactoriesIdle ==
  /\ svcIn = <<>>
  /\ svcOut = <<>>
  /\ svcPc = "idle"

GraphIdle ==
  /\ graph = <<>>
  /\ instances = <<>>
  /\ requests = <<>>
  /\ resolverPc = "idle"
  /\ usageErrors = 0

LifecycleIdle ==
  /\ lcHooks = <<>>
  /\ lcPending = <<>>
  /\ lcRan = <<>>
  /\ lcLogged = {}
  /\ lcState = "idle"

BackendIdle == GraphIdle /\ LifecycleIdle

\* No startTestBackend call has been made; the cleanup list is empty (line 180).
InitCalls ==
  /\ pc = [c \in Calls |-> "idle"]
  /\ bstate = [c \in Calls |-> "None"]
  /\ inEffect = [c \in Calls |-> NothingInEffect]
  /\ added = [c \in Calls |-> <<>>]
  /\ fac = [c \in Calls |-> "none"]
  /\ instantiated = [c \in Calls |-> {}]
  /\ server = [c \in Calls |-> Undefined]
  /\ hooks = [c \in Calls |-> <<>>]
  /\ pendingHooks = [c \in Calls |-> <<>>]
  /\ discovery = [c \in Calls |-> NoDiscovery]
  /\ backendInstancesToCleanUp = <<>>
  /\ tdPc = "idle"
  /\ tdPending = {}
  /\ tdLogged = {}
  /\ cleared = {}

\* ------------------------------------------- the resolver on bounded inputs
InitResolve ==
  /\ epIn \in [features : SeqsUpTo(Features, MaxFeatures),
               extensionPoints : ExtensionPointInputs]
  /\ epOut = NoOutcome
  /\ epPc = "ready"
  /\ FactoriesIdle
  /\ InitCalls
  /\ BackendIdle

Resolve ==
  /\ epPc = "ready"
  /\ epOut' = createExtensionPointTestModules(epIn.features, epIn.extensionPoints)
  /\ epPc' = "done"
  /\ UNCHANGED <<epIn, svcVars, backendVars, callVars, cleanupVars>>

SpecResolve == InitResolve /\ [][Resolve]_vars

\* --------------------------------------- the factory list on bounded inputs
InitFactories ==
  /\ svcIn \in SeqsUpTo(ServiceDefs, MaxServices)
  /\ svcOut = <<>>
  /\ svcPc = "ready"
  /\ ResolveIdle
  /\ InitCalls
  /\ BackendIdle

BuildFactories ==
  /\ svcPc = "ready"
  /\ svcOut' = BackendServices(svcIn)
  /\ svcPc' = "done"
  /\ UNCHANGED <<svcIn, epVars, backendVars, callVars, cleanupVars>>

SpecFactories == InitFactories /\ [][BuildFactories]_vars

\* ------------------------------------------- startTestBackend and teardown
\* The services options tried: none, the root HTTP router replaced, and the
\* root HTTP router and discovery both replaced.
MainServices ==
  {<<>>,
   <<[kind |-> "tuple", ref |-> Ref(RootHttpRouterId), deps |-> <<>>, impl |-> "fake"]>>,
   <<[kind |-> "tuple", ref |-> Ref(RootHttpRouterId), deps |-> <<>>, impl |-> "fake"],
     [kind |-> "factory", ref |-> Ref(DiscoveryId), deps |-> <<>>, impl |-> "fake"]>>}

ModuleFeature(pluginId, deps) ==
  [type |-> BackendFeatureType, version |-> SupportedVersion,
   regs |-> <<[type |-> "module", pluginId |-> pluginId, moduleId |-> "m",
               deps |-> deps, extensionPoints |-> <<>>]>>]

\* The features/extensionPoints options tried: an extension point owned by a
\* tested module, one owned by none, and an invalid feature without
\* extension points.
MainScenarios ==
  {[features |-> <<ModuleFeature("p1", <<"E">>)>>,
    extensionPoints |-> Given(<<[id |-> "E", impl |-> "implE"]>>)],
   [features |-> <<ModuleFeature("p1", <<"E">>)>>,
    extensionPoints |-> Given(<<[id |-> "F", impl |-> "implF"]>>)],
   [features |-> <<ModuleFeature("p1", <<>>),
                   [type |-> BackendFeatureType, version |-> "v2",
                    regs |-> <<>>]>>,
    extensionPoints |-> Absent]}

Init == ResolveIdle /\ FactoriesIdle /\ InitCalls /\ BackendIdle

\* A call of startTestBackend up to its await of backend.start().  Calls are
\* numbered in the order they are made.
StartTestBackend(c) ==
  /\ pc[c] = "idle"
  /\ IF c = 1 THEN TRUE ELSE pc[c - 1] # "idle"
  /\ \E services \in MainServices, sc \in MainScenarios,
        policy \in DuplicatePolicies :
       LET r == startTestBackendSync(services, sc.extensionPoints,
                                     sc.features, policy)
       IN /\ pc' = [pc EXCEPT ![c] = r.pc]
          /\ bstate' = [bstate EXCEPT ![c] = r.bstate]
          /\ inEffect' = [inEffect EXCEPT ![c] = r.inEffect]
          /\ added' = [added EXCEPT ![c] = r.added]
          /\ backendInstancesToCleanUp' =
               IF r.pushed THEN Append(backendInstancesToCleanUp, c)
               ELSE backendInstancesToCleanUp
  /\ UNCHANGED <<epVars, svcVars, backendVars, fac, instantiated, server, hooks,
                 pendingHooks, discovery, tdPc, tdPending, tdLogged, cleared>>

\* The backend that runs a factory again although it holds an instance of the
\* service.
CanInstantiateAgain(c, id) ==
  /\ bstate[c] = "Starting"
  /\ pc[c] = "starting"
  /\ fac[c] = "none"

\* backend.start() reaches a factory only when the backend is starting, no
\* other factory is suspended and its dependencies have been instantiated.
CanInstantiate(c, id) ==
  /\ bstate[c] = "Starting"
  /\ pc[c] = "starting"
  /\ fac[c] = "none"
  /\ id \notin instantiated[c]

\* Lines 205-217: the root HTTP router factory runs up to its await of
\* createHttpServer.  A replacement supplied by the caller creates no server.
RouterFactoryBegin(c) ==
  /\ CanInstantiate(c, RootHttpRouterId)
  /\ IF inEffect[c].router = "builtin"
     THEN /\ fac' = [fac EXCEPT ![c] = "creating"]
          /\ UNCHANGED instantiated
     ELSE /\ instantiated' = [instantiated EXCEPT ![c] = @ \cup {RootHttpRouterId}]
          /\ UNCHANGED fac
  /\ UNCHANGED <<epVars, svcVars, backendVars, pc, bstate, inEffect, added, server, hooks,
                 pendingHooks, discovery, cleanupVars>>

\* The factory that calls server.start() without awaiting it and returns the
\* router at once.
RouterServerCreatedNoAwait(c) ==
  /\ fac[c] = "creating"
  /\ server' = [server EXCEPT ![c] = CreatedServer]
  /\ hooks' = [hooks EXCEPT ![c] = Append(@, "server.stop")]
  /\ fac' = [fac EXCEPT ![c] = "none"]
  /\ instantiated' = [instantiated EXCEPT ![c] = @ \cup {RootHttpRouterId}]
  /\ UNCHANGED <<epVars, svcVars, backendVars, pc, bstate, inEffect, added,
                 pendingHooks, discovery, cleanupVars>>

\* The factory without line 223: no shutdown hook is handed to the root
\* lifecycle.
RouterServerCreatedNoHook(c) ==
  /\ fac[c] = "creating"
  /\ server' = [server EXCEPT ![c] = CreatedServer]
  /\ fac' = [fac EXCEPT ![c] = "starting"]
  /\ UNCHANGED <<epVars, svcVars, backendVars, pc, bstate, inEffect, added, instantiated,
                 hooks, pendingHooks, discovery, cleanupVars>>

\* Lines 217-225: createHttpServer resolved; server is assigned, the shutdown
\* hook is handed to the root lifecycle and server.start() is called.
RouterServerCreated(c) ==
  /\ fac[c] = "creating"
  /\ server' = [server EXCEPT ![c] = CreatedServer]
  /\ hooks' = [hooks EXCEPT ![c] = Append(@, "server.stop")]
  /\ fac' = [fac EXCEPT ![c] = "starting"]
  /\ UNCHANGED <<epVars, svcVars, backendVars, pc, bstate, inEffect, added, instantiated,
                 pendingHooks, discovery, cleanupVars>>

\* startTestBackend with `server` declared once for the module instead of
\* once per call: every call's closures see the server assigned last.
RouterServerStartedShared(c) ==
  /\ fac[c] = "starting"
  /\ server' = [d \in Calls |-> [state |-> "listening", port |-> BoundPort(c)]]
  /\ fac' = [fac EXCEPT ![c] = "none"]
  /\ instantiated' = [instantiated EXCEPT ![c] = @ \cup {RootHttpRouterId}]
  /\ UNCHANGED <<epVars, svcVars, backendVars, pc, bstate, inEffect, added,
                 hooks, pendingHooks, discovery, cleanupVars>>

\* Lines 225-227: server.start() resolved; the listener is bound and the
\* factory returns the router.
RouterServerStarted(c) ==
  /\ fac[c] = "starting"
  /\ server' = [server EXCEPT ![c] = [state |-> "listening", port |-> BoundPort(c)]]
  /\ fac' = [fac EXCEPT ![c] = "none"]
  /\ instantiated' = [instantiated EXCEPT ![c] = @ \cup {RootHttpRouterId}]
  /\ UNCHANGED <<epVars, svcVars, backendVars, pc, bstate, inEffect, added, hooks,
                 pendingHooks, discovery, cleanupVars>>

\* createHttpServer or server.start() rejects: the factory fails and with it
\* backend.start() and the startTestBackend call.
RouterFactoryFails(c) ==
  /\ fac[c] \in {"creating", "starting"}
  /\ fac' = [fac EXCEPT ![c] = "none"]
  /\ bstate' = [bstate EXCEPT ![c] = "Failed"]
  /\ pc' = [pc EXCEPT ![c] = "rejected:start"]
  /\ UNCHANGED <<epVars, svcVars, backendVars, inEffect, added, instantiated, server, hooks,
                 pendingHooks, discovery, cleanupVars>>

\* The backend that runs the discovery factory without waiting for the root
\* HTTP router factory to resolve.
DiscoveryFactoryRunUnordered(c) ==
  /\ bstate[c] = "Starting"
  /\ pc[c] = "starting"
  /\ DiscoveryId \notin instantiated[c]
  /\ discovery[c] = NoDiscovery
  /\ LET d == discoveryFactoryRun(server[c]) IN
     /\ discovery' = [discovery EXCEPT ![c] = d]
     /\ IF d.status = "ok"
        THEN instantiated' = [instantiated EXCEPT ![c] = @ \cup {DiscoveryId}]
        ELSE UNCHANGED instantiated
  /\ UNCHANGED <<epVars, svcVars, backendVars, pc, bstate, inEffect, added,
                 fac, server, hooks, pendingHooks, cleanupVars>>

\* The discovery factory runs once its dependency, the root HTTP router, has
\* been instantiated.  A throw fails backend.start().
DiscoveryFactoryRun(c) ==
  /\ CanInstantiate(c, DiscoveryId)
  /\ RootHttpRouterId \in instantiated[c]
  /\ IF inEffect[c].discovery = "builtin"
     THEN LET d == discoveryFactoryRun(server[c]) IN
          /\ discovery' = [discovery EXCEPT ![c] = d]
          /\ IF d.status = "ok"
             THEN /\ instantiated' = [instantiated EXCEPT ![c] = @ \cup {DiscoveryId}]
                  /\ UNCHANGED <<pc, bstate>>
             ELSE /\ bstate' = [bstate EXCEPT ![c] = "Failed"]
                  /\ pc' = [pc EXCEPT ![c] = "rejected:start"]
                  /\ UNCHANGED instantiated
     ELSE /\ instantiated' = [instantiated EXCEPT ![c] = @ \cup {DiscoveryId}]
          /\ UNCHANGED <<discovery, pc, bstate>>
  /\ UNCHANGED <<epVars, svcVars, backendVars, inEffect, added, fac, server, hooks,
                 pendingHooks, cleanupVars>>

\* backend.start() instantiates every service before it runs the init
\* functions of the registrations.
AllInstantiated(c) == {RootHttpRouterId, DiscoveryId} \subseteq instantiated[c]

\* An init function fails: backend.start() rejects and so does the await at
\* line 295.
StartFails(c) ==
  /\ bstate[c] = "Starting"
  /\ pc[c] = "starting"
  /\ fac[c] = "none"
  /\ AllInstantiated(c)
  /\ bstate' = [bstate EXCEPT ![c] = "Failed"]
  /\ pc' = [pc EXCEPT ![c] = "rejected:start"]
  /\ UNCHANGED <<epVars, svcVars, backendVars, inEffect, added, fac, instantiated, server,
                 hooks, pendingHooks, discovery, cleanupVars>>

\* startTestBackend without the await of line 295: the backend is returned
\* while backend.start() is still under way.
StartCompletesNoAwait(c) ==
  /\ bstate[c] = "Starting"
  /\ pc[c] = "starting"
  /\ pc' = [pc EXCEPT ![c] = "returned"]
  /\ UNCHANGED <<epVars, svcVars, backendVars, bstate, inEffect, added, fac, instantiated,
                 server, hooks, pendingHooks, discovery, cleanupVars>>

\* Lines 295-304: backend.start() resolves and startTestBackend returns the
\* backend with its server accessor.
StartCompletes(c) ==
  /\ bstate[c] = "Starting"
  /\ pc[c] = "starting"
  /\ fac[c] = "none"
  /\ AllInstantiated(c)
  /\ bstate' = [bstate EXCEPT ![c] = "Running"]
  /\ pc' = [pc EXCEPT ![c] = "returned"]
  /\ UNCHANGED <<epVars, svcVars, backendVars, inEffect, added, fac, instantiated, server,
                 hooks, pendingHooks, discovery, cleanupVars>>

\* The hooks backend.stop() runs: those handed to the backend's own root
\* lifecycle, last registered first.
HooksToRun(c) ==
  IF inEffect[c].rootLifecycle = "default"
  THEN [k \in DOMAIN hooks[c] |-> hooks[c][Len(hooks[c]) + 1 - k]]
  ELSE <<>>

\* backend.stop() on a running backend begins the shutdown.
BeginStop(b, st, hk) ==
  /\ st' = [c \in Calls |-> IF c \in b THEN "Stopping" ELSE st[c]]
  /\ hk' = [c \in Calls |-> IF c \in b THEN HooksToRun(c) ELSE hk[c]]

\* The caller stops the backend it was returned.
CallerStop(c) ==
  /\ pc[c] = "returned"
  /\ bstate[c] = "Running"
  /\ BeginStop({c}, bstate, pendingHooks)
  /\ UNCHANGED <<epVars, svcVars, backendVars, pc, inEffect, added, fac, instantiated,
                 server, hooks, discovery, cleanupVars>>

\* A stopping backend runs its next shutdown hook: () => server.stop().
RunShutdownHook(c) ==
  /\ bstate[c] = "Stopping"
  /\ pendingHooks[c] # <<>>
  /\ server' = [server EXCEPT ![c] = [@ EXCEPT !.state = "stopped"]]
  /\ pendingHooks' = [pendingHooks EXCEPT ![c] = Tail(@)]
  /\ UNCHANGED <<epVars, svcVars, backendVars, pc, bstate, inEffect, added, fac,
                 instantiated, hooks, discovery, cleanupVars>>

\* All hooks have run: the backend is stopped and its stop() settles.
StopCompletes(c) ==
  /\ bstate[c] = "Stopping"
  /\ pendingHooks[c] = <<>>
  /\ bstate' = [bstate EXCEPT ![c] = "Stopped"]
  /\ tdPending' = tdPending \ {c}
  /\ UNCHANGED <<epVars, svcVars, backendVars, pc, inEffect, added, fac, instantiated,
                 server, hooks, pendingHooks, discovery,
                 backendInstancesToCleanUp, tdPc, tdLogged, cleared>>

\* The backends of the cleanup list whose stop() fails: stop() on a backend
\* that is not running is a usage error.
StopFails(c) == bstate[c] \notin {"Running", "Stopping"}

\* The pass that awaits the stop() calls one after the other without catching:
\* the first failure rejects the pass and the later backends are never stopped.
RECURSIVE StoppedBeforeFailure(_)
StoppedBeforeFailure(list) ==
  IF list = <<>> \/ StopFails(Head(list)) THEN {}
  ELSE {Head(list)} \cup StoppedBeforeFailure(Tail(list))

TeardownBeginNoCatch ==
  /\ tdPc = "idle"
  /\ LET reached == StoppedBeforeFailure(backendInstancesToCleanUp)
         running == {c \in reached : bstate[c] = "Running"}
     IN /\ BeginStop(running, bstate, pendingHooks)
        /\ tdPending' = reached
        /\ tdPc' = IF reached = Range(backendInstancesToCleanUp)
                   THEN "awaiting" ELSE "failed"
  /\ tdLogged' = {}
  /\ UNCHANGED <<epVars, svcVars, backendVars, pc, inEffect, added, fac, instantiated,
                 server, hooks, discovery, backendInstancesToCleanUp, cleared>>

\* The pass that waits for every listed backend, also for those whose stop()
\* failed at once and will never report back.
TeardownBeginAwaitsListed ==
  /\ tdPc = "idle"
  /\ LET running == {c \in Range(backendInstancesToCleanUp) : bstate[c] = "Running"}
     IN BeginStop(running, bstate, pendingHooks)
  /\ tdPending' = Range(backendInstancesToCleanUp)
  /\ tdLogged' = {c \in Range(backendInstancesToCleanUp) : StopFails(c)}
  /\ tdPc' = "awaiting"
  /\ UNCHANGED <<epVars, svcVars, backendVars, pc, inEffect, added, fac,
                 instantiated, server, hooks, discovery,
                 backendInstancesToCleanUp, cleared>>

\* The pass over backends whose stop() begins the shutdown whatever state the
\* backend is in.
TeardownBeginStopsAll ==
  /\ tdPc = "idle"
  /\ BeginStop(Range(backendInstancesToCleanUp), bstate, pendingHooks)
  /\ tdPending' = Range(backendInstancesToCleanUp)
  /\ tdLogged' = {}
  /\ tdPc' = "awaiting"
  /\ UNCHANGED <<epVars, svcVars, backendVars, pc, inEffect, added, fac,
                 instantiated, server, hooks, discovery,
                 backendInstancesToCleanUp, cleared>>

\* Lines 317-326: the afterAll callback calls stop() on every backend of the
\* cleanup list and awaits them all.  stop() on a backend that is not running
\* is a usage error, caught and logged at once.
TeardownBegin ==
  /\ tdPc = "idle"
  /\ LET running == {c \in Range(backendInstancesToCleanUp) : bstate[c] = "Running"}
         stopping == {c \in Range(backendInstancesToCleanUp) : bstate[c] = "Stopping"}
     IN /\ BeginStop(running, bstate, pendingHooks)
        /\ tdPending' = running \cup stopping
  /\ tdLogged' = {c \in Range(backendInstancesToCleanUp) : StopFails(c)}
  /\ tdPc' = "awaiting"
  /\ UNCHANGED <<epVars, svcVars, backendVars, pc, inEffect, added, fac, instantiated,
                 server, hooks, discovery, backendInstancesToCleanUp, cleared>>

\* The pass that ends without emptying the list.
TeardownEndKeepsList ==
  /\ tdPc = "awaiting"
  /\ tdPending = {}
  /\ cleared' = cleared \cup Range(backendInstancesToCleanUp)
  /\ tdLogged' = {}
  /\ tdPc' = "idle"
  /\ UNCHANGED <<epVars, svcVars, backendVars, callVars, tdPending,
                 backendInstancesToCleanUp>>

\* Line 327: every awaited stop() has settled; the list is emptied.
TeardownEnd ==
  /\ tdPc = "awaiting"
  /\ tdPending = {}
  /\ cleared' = cleared \cup Range(backendInstancesToCleanUp)
  /\ backendInstancesToCleanUp' = <<>>
  /\ tdLogged' = {}
  /\ tdPc' = "idle"
  /\ UNCHANGED <<epVars, svcVars, backendVars, callVars, tdPending>>

Next ==
  \/ \E c \in Calls : StartTestBackend(c)
  \/ \E c \in Calls : RouterFactoryBegin(c)
  \/ \E c \in Calls : RouterServerCreated(c)
  \/ \E c \in Calls : RouterServerStarted(c)
  \/ \E c \in Calls : RouterFactoryFails(c)
  \/ \E c \in Calls : DiscoveryFactoryRun(c)
  \/ \E c \in Calls : StartFails(c)
  \/ \E c \in Calls : StartCompletes(c)
  \/ \E c \in Calls : CallerStop(c)
  \/ \E c \in Calls : RunShutdownHook(c)
  \/ \E c \in Calls : StopCompletes(c)
  \/ TeardownBegin
  \/ TeardownEnd

Spec == Init /\ [][Next]_vars

\* The same behaviours under the scheduling the event loop provides: a stop()
\* that has begun runs its hooks and settles, and the pass continues after its
\* await once every stop() it awaits has settled.
SpecLive ==
  /\ Init
  /\ [][Next]_vars
  /\ \A c \in Calls : WF_vars(RunShutdownHook(c))
  /\ \A c \in Calls : WF_vars(StopCompletes(c))
  /\ WF_vars(TeardownEnd)

\* ------------------------------- startTestBackend on bounded feature lists
\* The features and extensionPoints options of one call: modules of two
\* plugins, each depending on one extension point or on none, an unsupported
\* feature, and the extension points absent, empty or supplied in either order.
StartFeatures ==
  {ModuleFeature("p1", <<"E">>), ModuleFeature("p2", <<"F">>),
   ModuleFeature("p1", <<>>),
   [type |-> BackendFeatureType, version |-> "v2", regs |-> <<>>]}

StartExtensionPoints ==
  {Absent, Given(<<>>), Given(<<[id |-> "E", impl |-> "implE"]>>),
   Given(<<[id |-> "E", impl |-> "implE"], [id |-> "F", impl |-> "implF"]>>),
   Given(<<[id |-> "F", impl |-> "implF"], [id |-> "E", impl |-> "implE"]>>)}

InitStart ==
  /\ epIn \in [features : SeqsUpTo(StartFeatures, MaxFeatures),
               extensionPoints : StartExtensionPoints]
  /\ epOut = NoOutcome
  /\ epPc = "ready"
  /\ FactoriesIdle
  /\ InitCalls
  /\ BackendIdle

\* The first call of startTestBackend with the options held in epIn, up to
\* its await of backend.start(); epOut keeps what line 287 obtained from
\* createExtensionPointTestModules, which is not reached when creating the
\* backend throws.
StartTestBackendGiven ==
  /\ pc[1] = "idle"
  /\ epPc = "ready"
  /\ \E services \in MainServices, policy \in DuplicatePolicies :
       LET r == startTestBackendSync(services, epIn.extensionPoints,
                                     epIn.features, policy)
       IN /\ pc' = [pc EXCEPT ![1] = r.pc]
          /\ bstate' = [bstate EXCEPT ![1] = r.bstate]
          /\ inEffect' = [inEffect EXCEPT ![1] = r.inEffect]
          /\ added' = [added EXCEPT ![1] = r.added]
          /\ backendInstancesToCleanUp' =
               IF r.pushed THEN Append(backendInstancesToCleanUp, 1)
               ELSE backendInstancesToCleanUp
          /\ epOut' = IF r.pc = "rejected:create" THEN epOut
                      ELSE createExtensionPointTestModules(epIn.features,
                                                           epIn.extensionPoints)
  /\ epPc' = "done"
  /\ UNCHANGED <<epIn, svcVars, backendVars, fac, instantiated, server, hooks,
                 pendingHooks, discovery, tdPc, tdPending, tdLogged, cleared>>

NextStart ==
  \/ StartTestBackendGiven
  \/ \E c \in Calls : RouterFactoryBegin(c)
  \/ \E c \in Calls : RouterServerCreated(c)
  \/ \E c \in Calls : RouterServerStarted(c)
  \/ \E c \in Calls : RouterFactoryFails(c)
  \/ \E c \in Calls : DiscoveryFactoryRun(c)
  \/ \E c \in Calls : StartFails(c)
  \/ \E c \in Calls : StartCompletes(c)
  \/ \E c \in Calls : CallerStop(c)
  \/ \E c \in Calls : RunShutdownHook(c)
  \/ \E c \in Calls : StopCompletes(c)
  \/ TeardownBegin
  \/ TeardownEnd

SpecStart == InitStart /\ [][NextStart]_vars

\* ------------------------------------------ the backend's service resolver
\* The resolver of the backend that createSpecializedBackend returns: it
\* checks the declared dependency graph when start() begins and creates an
\* instance the first time a dependent asks for it.
MaxRequests == 2
MaxStartCalls == 2

GraphIds == <<"rootLifecycle", RootHttpRouterId, "httpRouter">>
GraphPlugins == {"p1", "p2"}
Graphs == [Range(GraphIds) -> SUBSET Range(GraphIds)]

\* A root-scoped service has one instance; a plugin-scoped one has one per
\* plugin.
Instance(id, pluginId) ==
  [id |-> id, key |-> IF ScopeOf(id) = "root" THEN "root" ELSE pluginId]

Instances == {Instance(id, p) : id \in Range(GraphIds), p \in GraphPlugins}

RECURSIVE ReachFrom(_, _, _)
ReachFrom(deps, ids, n) ==
  IF n = 0 THEN ids
  ELSE ReachFrom(deps, ids \cup UNION {deps[x] : x \in ids}, n - 1)

Cyclic(deps) ==
  \E id \in DOMAIN deps : id \in ReachFrom(deps, deps[id], Len(GraphIds))

\* A root-scoped factory may not depend on a plugin-scoped service.
ScopeMismatch(deps) ==
  \E id \in DOMAIN deps :
    ScopeOf(id) = "root" /\ \E d \in deps[id] : ScopeOf(d) = "plugin"

DepsInOrder(deps, id) == SelectSeq(GraphIds, LAMBDA d : d \in deps[id])

RECURSIVE Obtain(_, _, _, _)
RECURSIVE ObtainAll(_, _, _, _)
RECURSIVE ObtainSelfFirst(_, _, _, _)
RECURSIVE ObtainUnmemoized(_, _, _, _)

\* The resolver that runs a factory before the factories it depends on.
ObtainSelfFirst(deps, log, id, pluginId) ==
  IF Instance(id, pluginId) \in Range(log) THEN log
  ELSE ObtainAll(deps, Append(log, Instance(id, pluginId)),
                 DepsInOrder(deps, id), pluginId)

\* The resolver that runs the factory every time the service is asked for.
ObtainUnmemoized(deps, log, id, pluginId) ==
  Append(ObtainAll(deps, log, DepsInOrder(deps, id), pluginId),
         Instance(id, pluginId))

\* The instance of a service for a plugin: the memoized one, or else a new
\* one from the factory, run after its dependencies have been obtained.
Obtain(deps, log, id, pluginId) ==
  IF Instance(id, pluginId) \in Range(log) THEN log
  ELSE Append(ObtainAll(deps, log, DepsInOrder(deps, id), pluginId),
              Instance(id, pluginId))

ObtainAll(deps, log, ids, pluginId) ==
  IF ids = <<>> THEN log
  ELSE ObtainAll(deps, Obtain(deps, log, Head(ids), pluginId), Tail(ids),
                 pluginId)

InitGraph ==
  /\ graph \in Graphs
  /\ instances = <<>>
  /\ requests = [k \in Instances |-> 0]
  /\ resolverPc = "created"
  /\ usageErrors = 0
  /\ ResolveIdle
  /\ FactoriesIdle
  /\ InitCalls
  /\ LifecycleIdle

\* start() checks the graph before any factory runs: a cycle or a scope
\* mismatch is a configuration error.
ValidateGraph ==
  /\ resolverPc = "created"
  /\ resolverPc' = IF Cyclic(graph) \/ ScopeMismatch(graph)
                   THEN "failed" ELSE "resolving"
  /\ UNCHANGED <<epVars, svcVars, callVars, cleanupVars, lcVars, graph,
                 instances, requests, usageErrors>>

\* A dependent of plugin pluginId asks for service id.
Request(id, pluginId) ==
  /\ resolverPc = "resolving"
  /\ requests[Instance(id, pluginId)] < MaxRequests
  /\ instances' = Obtain(graph, instances, id, pluginId)
  /\ requests' = [requests EXCEPT ![Instance(id, pluginId)] = @ + 1]
  /\ UNCHANGED <<epVars, svcVars, callVars, cleanupVars, lcVars, graph,
                 resolverPc, usageErrors>>

\* stop() of the started backend: its instances are no longer handed out.
StopResolver ==
  /\ resolverPc = "resolving"
  /\ resolverPc' = "stopped"
  /\ UNCHANGED <<epVars, svcVars, callVars, cleanupVars, lcVars, graph,
                 instances, requests, usageErrors>>

\* The backend that accepts a further start(): it checks its graph and runs
\* its factories afresh.
StartAgainAccepted ==
  /\ resolverPc \in {"resolving", "failed", "stopped"}
  /\ usageErrors < MaxStartCalls
  /\ resolverPc' = "created"
  /\ instances' = <<>>
  /\ usageErrors' = usageErrors + 1
  /\ UNCHANGED <<epVars, svcVars, callVars, cleanupVars, lcVars, graph,
                 requests>>

\* start() on a backend that was started before (running, failed or stopped)
\* is refused as a usage error and nothing else happens.
StartAgain ==
  /\ resolverPc \in {"resolving", "failed", "stopped"}
  /\ usageErrors < MaxStartCalls
  /\ usageErrors' = usageErrors + 1
  /\ UNCHANGED <<epVars, svcVars, callVars, cleanupVars, lcVars, graph,
                 instances, requests, resolverPc>>

NextGraph ==
  \/ ValidateGraph
  \/ \E id \in Range(GraphIds), pluginId \in GraphPlugins : Request(id, pluginId)
  \/ StopResolver
  \/ StartAgain

SpecGraph == InitGraph /\ [][NextGraph]_vars

\* --------------------------------------------- the backend's root lifecycle
\* The root lifecycle of a started backend: addShutdownHook (called at line
\* 223 and by any other service or init function) and the part of stop() that
\* runs the hooks.  A hook is known by its position in registration order and
\* either returns or throws.
MaxHooks == 4

HookOutcomes == {"returns", "throws"}

ReverseOrder(n) == [k \in 1..n |-> n + 1 - k]

InitLifecycle ==
  /\ lcHooks = <<>>
  /\ lcPending = <<>>
  /\ lcRan = <<>>
  /\ lcLogged = {}
  /\ lcState = "Running"
  /\ ResolveIdle
  /\ FactoriesIdle
  /\ InitCalls
  /\ GraphIdle

addShutdownHook(outcome) ==
  /\ lcState = "Running"
  /\ Len(lcHooks) < MaxHooks
  /\ lcHooks' = Append(lcHooks, outcome)
  /\ UNCHANGED <<epVars, svcVars, callVars, cleanupVars, graphVars, lcPending,
                 lcRan, lcLogged, lcState>>

\* stop() is called: the hooks are taken last registered first.
LifecycleStop ==
  /\ lcState = "Running"
  /\ lcState' = "Stopping"
  /\ lcPending' = ReverseOrder(Len(lcHooks))
  /\ UNCHANGED <<epVars, svcVars, callVars, cleanupVars, graphVars, lcHooks,
                 lcRan, lcLogged>>

\* The stop() that gives up at the first hook that throws.
LifecycleRunHookAbort ==
  /\ lcState = "Stopping"
  /\ lcPending # <<>>
  /\ lcRan' = Append(lcRan, Head(lcPending))
  /\ IF lcHooks[Head(lcPending)] = "throws"
     THEN lcPending' = <<>> /\ lcLogged' = lcLogged \cup {Head(lcPending)}
     ELSE lcPending' = Tail(lcPending) /\ UNCHANGED lcLogged
  /\ UNCHANGED <<epVars, svcVars, callVars, cleanupVars, graphVars, lcHooks,
                 lcState>>

\* stop() runs the next hook; a hook that throws is logged and the rest run.
LifecycleRunHook ==
  /\ lcState = "Stopping"
  /\ lcPending # <<>>
  /\ lcRan' = Append(lcRan, Head(lcPending))
  /\ lcLogged' = IF lcHooks[Head(lcPending)] = "throws"
                 THEN lcLogged \cup {Head(lcPending)} ELSE lcLogged
  /\ lcPending' = Tail(lcPending)
  /\ UNCHANGED <<epVars, svcVars, callVars, cleanupVars, graphVars, lcHooks,
                 lcState>>

\* Every hook has run: stop() settles and the backend is stopped.
LifecycleStopped ==
  /\ lcState = "Stopping"
  /\ lcPending = <<>>
  /\ lcState' = "Stopped"
  /\ UNCHANGED <<epVars, svcVars, callVars, cleanupVars, graphVars, lcHooks,
                 lcPending, lcRan, lcLogged>>

NextLifecycle ==
  \/ \E outcome \in HookOutcomes : addShutdownHook(outcome)
  \/ LifecycleStop
  \/ LifecycleRunHook
  \/ LifecycleStopped

SpecLifecycle == InitLifecycle /\ [][NextLifecycle]_vars

\* ------------------------------------------------------------------ claims
AllRegs == FlatMapRegs(epIn.features)

SuppliedIds ==
  {epIn.extensionPoints.tuples[i].id : i \in DOMAIN epIn.extensionPoints.tuples}

DependingModules(id) ==
  {i \in DOMAIN AllRegs :
     AllRegs[i].type = "module" /\ id \in Range(AllRegs[i].deps)}

FirstOwner(id) ==
  AllRegs[CHOOSE i \in DependingModules(id) :
            \A j \in DependingModules(id) : i <= j].pluginId

RegistersId(module, id) ==
  \E k \in DOMAIN module.regs[1].extensionPoints :
     module.regs[1].extensionPoints[k].id = id

ModulesRegistering(id) ==
  {k \in DOMAIN epOut.modules : RegistersId(epOut.modules[k], id)}

ResolveSucceeded ==
  epPc = "done" /\ epIn.extensionPoints.present /\ epOut.error = NoError

\* C1: when resolution succeeds, every supplied extension-point id is attached
\* to exactly one plugin, the pluginId of the first module-kind registration
\* (in feature order) whose init dependencies include the id.
C1_OwnedByFirstDependingModule ==
  ResolveSucceeded =>
    \A id \in SuppliedIds :
      /\ DependingModules(id) # {}
      /\ Cardinality(ModulesRegistering(id)) = 1
      /\ \A k \in ModulesRegistering(id) :
           epOut.modules[k].regs[1].pluginId = FirstOwner(id)

\* Two modules of different plugins depend on the same supplied id.
C1_Witness ==
  /\ ResolveSucceeded
  /\ \E id \in SuppliedIds : \E i, j \in DependingModules(id) :
       i < j /\ AllRegs[i].pluginId # AllRegs[j].pluginId

AllFeaturesValid ==
  \A i \in DOMAIN epIn.features :
     /\ epIn.features[i].type = BackendFeatureType
     /\ epIn.features[i].version = SupportedVersion

UnownedIds == {id \in SuppliedIds : DependingModules(id) = {}}

\* C2: if some supplied ids are depended on by no module-kind registration,
\* resolution throws an error that names every such id and no resolved one.
C2_ErrorNamesEveryUnresolvedId ==
  (epPc = "done" /\ epIn.extensionPoints.present /\ AllFeaturesValid) =>
    /\ (UnownedIds # {}) <=> (epOut.error.kind = "unresolved")
    /\ (epOut.error.kind = "unresolved") =>
         /\ Range(epOut.error.values) = UnownedIds
         /\ epOut.modules = <<>>

\* Two ids are left unresolved and both are named.
C2_Witness ==
  /\ epPc = "done"
  /\ epOut.error.kind = "unresolved"
  /\ Cardinality(UnownedIds) = 2
  /\ \E i \in DOMAIN AllRegs : AllRegs[i].type = "plugin" /\ AllRegs[i].deps # <<>>

CallerSupplied(id) == \E k \in DOMAIN svcIn : svcIn[k].ref.id = id

\* C4: a default factory is in the list handed to the backend iff the caller
\* supplied no service with its id; caller entries keep their place, so the
\* factory in effect for a supplied id is the caller's.
C4_DefaultsOnlyForMissingIds ==
  svcPc = "done" =>
    /\ \A d \in DOMAIN defaultServiceFactories :
         (\E k \in DOMAIN svcOut : svcOut[k] = defaultServiceFactories[d])
           <=> ~CallerSupplied(defaultServiceFactories[d].service.id)
    /\ \A k \in DOMAIN svcIn :
         /\ svcOut[k].service = svcIn[k].ref
         /\ svcOut[k].made # "default"
    /\ \A d \in DOMAIN defaultServiceFactories :
         \A policy \in DuplicatePolicies :
           LET id == defaultServiceFactories[d].service.id IN
           (CallerSupplied(id) /\ ~RegistryRejects(svcOut, policy)) =>
              RegistryGet(svcOut, policy, id).made # "default"

\* The caller replaces one default (rootLifecycle) and the others are added.
C4_Witness ==
  /\ svcPc = "done"
  /\ CallerSupplied("rootLifecycle")
  /\ \E k \in DOMAIN svcOut : svcOut[k].made = "default"

\* C5: the list handed to createSpecializedBackend holds at most one factory
\* per service id, the root HTTP router and discovery ids included.
C5_AtMostOneFactoryPerId ==
  svcPc = "done" =>
    \A i, j \in DOMAIN svcOut :
       svcOut[i].service.id = svcOut[j].service.id => i = j

\* C3: when extension-point resolution fails in startTestBackend, start() is
\* never called, no feature is added, no factory is run and no HTTP listener
\* is created.
C3_ResolutionFailsBeforeStartup ==
  \A c \in Calls :
    pc[c] = "rejected:resolve" =>
      /\ bstate[c] = "Created"
      /\ added[c] = <<>>
      /\ instantiated[c] = {}
      /\ fac[c] = "none"
      /\ server[c] = Undefined
      /\ hooks[c] = <<>>
      /\ discovery[c] = NoDiscovery

\* A call was rejected by the resolver and a teardown pass has since begun.
C3_Witness ==
  \E c \in Calls : pc[c] = "rejected:resolve" /\ tdPc = "awaiting"

\* C6: run while no HTTP server has been created, the discovery factory fails
\* with 'Test server not started yet' and yields no discovery instance.
C6_DiscoveryFailsWithoutServer ==
  \A c \in Calls :
    (discovery[c].status # "none" /\ server[c].state = "undefined") =>
      /\ discovery[c].status = "error"
      /\ discovery[c].message = "Test server not started yet"
      /\ DiscoveryId \notin instantiated[c]
      /\ pc[c] = "rejected:start"

\* The built-in discovery factory ran behind a replaced root HTTP router.
C6_Witness ==
  \E c \in Calls :
    /\ discovery[c].status = "error"
    /\ inEffect[c].router = "wrapped"
    /\ RootHttpRouterId \in instantiated[c]

\* C7: whenever the discovery factory succeeds, the port of its base URL is
\* the port the listener of the same backend is bound to.
C7_DiscoveryPortIsBoundPort ==
  \A c \in Calls :
    discovery[c].status = "ok" =>
      /\ server[c].state \in {"listening", "stopped"}
      /\ discovery[c].port = server[c].port
      /\ discovery[c].port = BoundPort(c)
      /\ discovery[c].port # RequestedPort

\* Two backends run discovery, each on its own bound port.
C7_Witness ==
  \E a, b \in Calls :
    /\ a # b
    /\ discovery[a].status = "ok" /\ discovery[b].status = "ok"
    /\ server[a].state = "listening" /\ server[b].state = "listening"

C9_ListeningWhenReturned ==
  \A c \in Calls :
    (pc[c] = "returned" /\ bstate[c] = "Running" /\
     inEffect[c].router = "builtin" /\ RootHttpRouterId \in instantiated[c]) =>
      /\ server[c].state = "listening"
      /\ server[c].port = BoundPort(c)

\* A call has returned a running backend whose built-in router factory ran.
C9_Witness ==
  \E c \in Calls :
    /\ pc[c] = "returned" /\ bstate[c] = "Running"
    /\ inEffect[c].router = "builtin"
    /\ server[c].state = "listening"

\* C10: every Backend startTestBackend created is on the cleanup list until a
\* teardown pass empties the list, whatever became of the call.
C10_CreatedBackendsAreOnCleanupList ==
  \A c \in Calls :
    (bstate[c] # "None" /\ c \notin cleared) =>
      \E k \in DOMAIN backendInstancesToCleanUp : backendInstancesToCleanUp[k] = c

\* A backend whose add failed and one whose start failed are both listed.
C10_Witness ==
  \E a, b \in Calls :
    /\ pc[a] = "rejected:add" /\ pc[b] = "rejected:start"
    /\ {a, b} \subseteq Range(backendInstancesToCleanUp)

\* C11: the teardown pass calls stop() on every backend of the cleanup list;
\* a stop() that fails or has not settled keeps no other backend from being
\* stopped, each failure is logged for its own backend, and the pass itself
\* does not fail.
C11_TeardownStopsEveryBackend ==
  [][(tdPc = "idle" /\ tdPc' # "idle") =>
       /\ tdPc' = "awaiting"
       /\ \A c \in Range(backendInstancesToCleanUp) :
            /\ bstate[c] = "Running" => (bstate'[c] = "Stopping" /\ c \in tdPending')
            /\ bstate[c] = "Stopping" => c \in tdPending'
            /\ StopFails(c) <=> c \in tdLogged']_vars

\* A pass has logged the failed stop() of one backend while it still awaits
\* the stop() of another, listed after it.
C11_Witness ==
  /\ tdPc = "awaiting"
  /\ \E i, j \in DOMAIN backendInstancesToCleanUp :
       /\ i < j
       /\ backendInstancesToCleanUp[i] \in tdLogged
       /\ backendInstancesToCleanUp[j] \in tdPending
       /\ bstate[backendInstancesToCleanUp[j]] = "Stopping"

\* The positions of the features that fail the validation of lines 109-118.
InvalidPositions ==
  {i \in DOMAIN epIn.features :
     \/ epIn.features[i].type # BackendFeatureType
     \/ epIn.features[i].version # SupportedVersion}

\* C12: during resolution a feature with another type tag or another schema
\* version makes createExtensionPointTestModules fail with an error that
\* names the offending type or version value, and getRegistrations of that
\* feature is not called.
C12_InvalidFeatureFailsUninvoked ==
  (epPc = "done" /\ epIn.extensionPoints.present /\ InvalidPositions # {}) =>
    LET first == CHOOSE i \in InvalidPositions : \A j \in InvalidPositions : i <= j
        feature == epIn.features[first]
    IN /\ IF feature.type # BackendFeatureType
          THEN epOut.error = [kind |-> "invalid type", values |-> <<feature.type>>]
          ELSE epOut.error = [kind |-> "invalid version",
                              values |-> <<feature.version>>]
       /\ epOut.modules = <<>>
       /\ \A i \in InvalidPositions : i \notin Range(epOut.invoked)

\* Resolution has failed on an invalid feature that follows a valid one whose
\* registrations were obtained.
C12_Witness ==
  /\ epPc = "done"
  /\ epIn.extensionPoints.present
  /\ \E i \in InvalidPositions : i > 1 /\ 1 \in Range(epOut.invoked)
  /\ epOut.error.kind \in {"invalid type", "invalid version"}

\* C13: each caller-supplied service entry becomes exactly one factory, at
\* the entry's own position: a ready-made factory is used unchanged, a
\* function is called and its result used, and a (ref, implementation) pair
\* becomes a factory without dependencies for the ref's service id and scope
\* that resolves to the supplied implementation.
C13_EachEntryBecomesOneFactory ==
  svcPc = "done" =>
    /\ Len(svcOut) >= Len(svcIn)
    /\ Cardinality({k \in DOMAIN svcOut :
                      svcOut[k].made \in {"given", "called", "wrapped"}})
         = Len(svcIn)
    /\ \A k \in DOMAIN svcIn :
         LET serviceDef == svcIn[k]
             factory == svcOut[k]
         IN /\ factory.service.id = serviceDef.ref.id
            /\ factory.service.scope = serviceDef.ref.scope
            /\ factory.impl = serviceDef.impl
            /\ serviceDef.kind = "factory" =>
                 (factory.made = "given" /\ factory.deps = serviceDef.deps)
            /\ serviceDef.kind = "function" =>
                 (factory.made = "called" /\ factory.deps = serviceDef.deps)
            /\ serviceDef.kind = "tuple" =>
                 (factory.made = "wrapped" /\ factory.deps = <<>>)

\* A plugin-scoped pair and a ready-made factory with a dependency were both
\* supplied and mapped.
C13_Witness ==
  /\ svcPc = "done"
  /\ \E k \in DOMAIN svcIn :
       /\ svcIn[k].kind = "tuple"
       /\ svcIn[k].ref.scope = "plugin"
       /\ svcOut[k].made = "wrapped"
  /\ \E k \in DOMAIN svcIn :
       /\ svcIn[k].kind = "factory"
       /\ svcIn[k].deps # <<>>
       /\ svcOut[k].made = "given"

\* C14: when backend.start() fails, startTestBackend rejects with that
\* failure and returns no TestBackend; a TestBackend is returned only after
\* start() has completed successfully.
C14_ReturnedOnlyAfterStart ==
  \A c \in Calls :
    /\ pc[c] = "returned" => bstate[c] \in {"Running", "Stopping", "Stopped"}
    /\ bstate[c] = "Failed" => pc[c] = "rejected:start"
    /\ discovery[c].status = "error" => pc[c] = "rejected:start"

\* One call was rejected by a failed start while another has returned its
\* started backend.
C14_Witness ==
  \E c, d \in Calls :
    /\ pc[c] = "rejected:start"
    /\ bstate[c] = "Failed"
    /\ pc[d] = "returned"
    /\ bstate[d] = "Running"

OwningPlugins == {FirstOwner(id) : id \in SuppliedIds}

OwnedIds(pluginId) == {id \in SuppliedIds : FirstOwner(id) = pluginId}

\* The pair supplied last for an id.
LastSupplied(id) ==
  LET tuples == epIn.extensionPoints.tuples
      at == {i \in DOMAIN tuples : tuples[i].id = id}
  IN tuples[CHOOSE i \in at : \A j \in at : j <= i]

\* What every synthesized module is, whatever it registers: one module-kind
\* registration under the test module id with an init without dependencies,
\* and one such module per owning plugin.
SynthesizedShape ==
  /\ Len(epOut.modules) = Cardinality(OwningPlugins)
  /\ {epOut.modules[k].regs[1].pluginId : k \in DOMAIN epOut.modules}
       = OwningPlugins
  /\ \A k \in DOMAIN epOut.modules :
       /\ epOut.modules[k].type = BackendFeatureType
       /\ epOut.modules[k].version = SupportedVersion
       /\ Len(epOut.modules[k].regs) = 1
       /\ epOut.modules[k].regs[1].type = "module"
       /\ epOut.modules[k].regs[1].moduleId = TestModuleId
       /\ epOut.modules[k].regs[1].deps = <<>>

\* C16 as stated: successful resolution yields exactly one synthesized module
\* per plugin that owns a supplied extension point, scoped to that plugin,
\* which registers exactly the supplied (reference, implementation) pairs of
\* the extension points the plugin owns and an init without dependencies.
C16_RegistersEverySuppliedPair ==
  ResolveSucceeded =>
    /\ SynthesizedShape
    /\ \A k \in DOMAIN epOut.modules :
         Range(epOut.modules[k].regs[1].extensionPoints)
           = {t \in Range(epIn.extensionPoints.tuples) :
                t.id \in OwnedIds(epOut.modules[k].regs[1].pluginId)}

\* C16, amended: successful resolution yields exactly one synthesized module
\* per plugin that owns a supplied extension point, scoped to that plugin,
\* which registers, for every extension point the plugin owns, the pair that
\* was supplied last for its id and no other pair, and an init without
\* dependencies.
C16_RegistersLastSuppliedPair ==
  ResolveSucceeded =>
    /\ SynthesizedShape
    /\ \A k \in DOMAIN epOut.modules :
         Range(epOut.modules[k].regs[1].extensionPoints)
           = {LastSupplied(id) :
                id \in OwnedIds(epOut.modules[k].regs[1].pluginId)}

\* Resolution has synthesized modules for two plugins, each owning one of the
\* supplied extension points.
C16_Witness ==
  /\ ResolveSucceeded
  /\ Len(epOut.modules) = 2
  /\ Cardinality(OwningPlugins) = 2
  /\ \A k \in DOMAIN epOut.modules :
       Len(epOut.modules[k].regs[1].extensionPoints) = 1

\* C18: the factories of an acyclic graph run in a topological order of the
\* declared dependencies, every one after the instances it depends on exist;
\* for a cyclic graph start() fails with a configuration error and no
\* factory runs.
C18_FactoriesRunInDependencyOrder ==
  /\ \A i \in DOMAIN instances :
       \A d \in graph[instances[i].id] :
         \E j \in 1..(i - 1) : instances[j] = Instance(d, instances[i].key)
  /\ (resolverPc # "idle" /\ Cyclic(graph)) =>
       (resolverPc \in {"created", "failed"} /\ instances = <<>>)

\* The three services depend on one another in a chain and one request for
\* the last of them has instantiated all three.
C18_Witness ==
  /\ resolverPc = "resolving"
  /\ graph["httpRouter"] = {RootHttpRouterId}
  /\ graph[RootHttpRouterId] = {"rootLifecycle"}
  /\ graph["rootLifecycle"] = {}
  /\ requests[Instance("httpRouter", "p1")] = 1
  /\ Len(instances) = 3

\* C19: a plugin-scoped service has exactly one instance per plugin that
\* asks for it and a root-scoped service exactly one for the process, however
\* many dependents ask.
C19_OneInstancePerScopeKey ==
  resolverPc = "resolving" =>
    /\ \A i, j \in DOMAIN instances : instances[i] = instances[j] => i = j
    /\ \A i \in DOMAIN instances :
         (instances[i].key = "root") <=> (ScopeOf(instances[i].id) = "root")
    /\ \A k \in Instances :
         requests[k] > 0 =>
           Cardinality({i \in DOMAIN instances : instances[i] = k}) = 1

\* A root-scoped service was asked for more than once, and a plugin-scoped
\* one by dependents of both plugins, twice by those of one plugin.
C19_Witness ==
  /\ resolverPc = "resolving"
  /\ requests[Instance(RootHttpRouterId, "p1")] >= 2
  /\ requests[Instance("httpRouter", "p1")] >= 2
  /\ requests[Instance("httpRouter", "p2")] >= 1

C21_StartedAtMostOnce ==
  [][/\ resolverPc # "created" => resolverPc' # "created"
     /\ resolverPc \in {"failed", "stopped"} => resolverPc' = resolverPc
     /\ usageErrors' # usageErrors =>
          /\ usageErrors' = usageErrors + 1
          /\ instances' = instances
          /\ resolverPc' = resolverPc]_vars

\* start() has been refused on a stopped backend whose factories had run.
C21_Witness ==
  /\ resolverPc = "stopped"
  /\ usageErrors >= 1
  /\ Len(instances) >= 2

\* The moves of a backend's lifecycle state.  createSpecializedBackend and
\* the call of start() happen in one synchronous run of startTestBackend, so
\* a backend may first be seen as Starting; a start() that fails leaves the
\* backend unusable, which is where it stays.
LifecycleMoves ==
  {<<"None", "Created">>, <<"None", "Starting">>, <<"Starting", "Running">>,
   <<"Starting", "Failed">>, <<"Running", "Stopping">>,
   <<"Stopping", "Stopped">>}

C23_DiscoveryRunsAfterRouterResolved ==
  \A c \in Calls :
    (discovery[c] # NoDiscovery \/ DiscoveryId \in instantiated[c]) =>
      /\ RootHttpRouterId \in instantiated[c]
      /\ server[c] # CreatedServer
      /\ inEffect[c].router = "builtin" =>
           /\ server[c].state \in {"listening", "stopped"}
           /\ "server.stop" \in Range(hooks[c])
           /\ discovery[c].status = "ok"

\* Discovery has run in a backend that is still starting, behind the built-in
\* root HTTP router factory.
C23_Witness ==
  \E c \in Calls :
    /\ bstate[c] = "Starting"
    /\ inEffect[c].router = "builtin"
    /\ inEffect[c].discovery = "builtin"
    /\ DiscoveryId \in instantiated[c]
    /\ discovery[c].status = "ok"

\* C24: whenever the HTTP server of a test backend exists and has not been
\* stopped, listening or not, the hook that stops it is registered with the
\* root lifecycle; the hook is there before server.start() is called and so
\* also when server.start() fails.
C24_HookRegisteredBeforeListening ==
  \A c \in Calls :
    server[c].state \in {"created", "listening"} =>
      /\ "server.stop" \in Range(hooks[c])
      /\ (bstate[c] = "Stopping" => "server.stop" \in Range(pendingHooks[c]))

\* server.start() has failed: the server was created, never listened, and its
\* hook is registered.
C24_Witness ==
  \E c \in Calls :
    /\ bstate[c] = "Failed"
    /\ server[c] = CreatedServer
    /\ hooks[c] = <<"server.stop">>

\* C25: the built-in root HTTP router factory runs at most once per backend:
\* at most one HTTP server is created and `server` is assigned at most once.
\* Every run of the factory that assigns `server` registers one more shutdown
\* hook, so the hooks count the assignments.
C25_RouterFactoryRunsAtMostOnce ==
  \A c \in Calls :
    /\ Len(hooks[c]) <= 1
    /\ (server[c] = Undefined) <=> (hooks[c] = <<>>)
    /\ fac[c] # "none" => RootHttpRouterId \notin instantiated[c]

\* Two backends have each created their one server.
C25_Witness ==
  \E c, d \in Calls :
    /\ c # d
    /\ Len(hooks[c]) = 1 /\ server[c].state = "listening"
    /\ Len(hooks[d]) = 1 /\ server[d].state = "listening"
    /\ {RootHttpRouterId, DiscoveryId} \subseteq instantiated[c]

\* C26: however startTestBackend calls interleave, the `server` accessor of a
\* returned TestBackend and the port of its discovery base URL are those of
\* the server that the same call's root HTTP router factory created, and of
\* no other call's server.
C26_ServerBelongsToItsOwnCall ==
  \A c \in Calls :
    pc[c] = "returned" =>
      LET a == ServerAccessor(server[c]) IN
      /\ ~a.throws =>
           /\ a.value.port = BoundPort(c)
           /\ \A d \in Calls \ {c} :
                server[d].state \in {"listening", "stopped"} =>
                  a.value.port # server[d].port
      /\ inEffect[c].discovery = "builtin" =>
           /\ discovery[c].port = BoundPort(c)
           /\ \A d \in Calls \ {c} :
                server[d].state \in {"listening", "stopped"} =>
                  discovery[c].port # server[d].port

\* One call has returned its backend while the root HTTP router factory of
\* another is between creating its server and the server listening.
C26_Witness ==
  \E c, d \in Calls :
    /\ c # d
    /\ pc[c] = "returned"
    /\ discovery[c].status = "ok"
    /\ server[c].state = "listening"
    /\ fac[d] = "starting"
    /\ server[d] = CreatedServer

\* C27: once a teardown pass has completed, no listener of a backend it took
\* off the cleanup list is still listening, the listener of a backend whose
\* start() failed after the root HTTP router factory had run included.
C27_NoListenerAfterTeardown ==
  \A c \in cleared : server[c].state # "listening"

\* C28: a teardown pass takes no backend off the cleanup list on which stop()
\* was not called, by the pass or before it, also not a backend that joined
\* the list while the pass was awaiting its stop() calls.  The pass has
\* called stop() on the backends it has logged and on those it awaited, which
\* are stopped when it ends.
C28_RemovedOnlyAfterStop ==
  [][(tdPc = "awaiting" /\ tdPc' = "idle") =>
       \A c \in Range(backendInstancesToCleanUp) :
         c \in tdLogged \/ bstate[c] \in {"Stopping", "Stopped"}]_vars

\* C29: a completed teardown pass leaves the cleanup list empty: a backend
\* that a pass has dealt with is not on the list any more, so no later pass
\* calls stop() on it again, and when every backend created so far has been
\* dealt with the list is empty.
C29_ListEmptiedByPass ==
  /\ \A c \in cleared :
       \A k \in DOMAIN backendInstancesToCleanUp : backendInstancesToCleanUp[k] # c
  /\ (\A c \in Calls : bstate[c] # "None" => c \in cleared) =>
       backendInstancesToCleanUp = <<>>
  /\ (tdPc = "awaiting" /\ tdLogged # {}) => tdLogged \cap cleared = {}

\* A second pass is under way on a backend created after a first pass had
\* dealt with an earlier one.
C29_Witness ==
  /\ tdPc = "awaiting"
  /\ cleared # {}
  /\ tdPending # {}
  /\ \E c \in cleared : bstate[c] = "Stopped"

\* C30: when every stop() that has begun settles, a teardown pass that has
\* begun completes and leaves the cleanup list empty.
C30_TeardownCompletes ==
  (tdPc = "awaiting") ~> (tdPc = "idle" /\ backendInstancesToCleanUp = <<>>)

\* A pass is awaiting the stop() of two backends while it has logged the
\* failed stop() of none.
C30_Witness ==
  /\ tdPc = "awaiting"
  /\ Cardinality(tdPending) >= 2
  /\ \E c \in tdPending : pendingHooks[c] # <<>>

DependingPlugins(id) ==
  {i \in DOMAIN AllRegs :
     AllRegs[i].type = "plugin" /\ id \in Range(AllRegs[i].deps)}

PluginIdsOwning(id) ==
  {epOut.byPlugin[k].pluginId :
     k \in {j \in DOMAIN epOut.byPlugin : id \in Range(epOut.byPlugin[j].points)}}

\* C31: only module-kind registrations confer ownership. A supplied id that a
\* plugin-kind registration depends on stays pending and is attached to no
\* plugin on that account: with no depending module it is reported as
\* unresolved, and with one its owner is the pluginId of a depending module.
C31_OnlyModulesConferOwnership ==
  (epPc = "done" /\ epIn.extensionPoints.present /\ AllFeaturesValid) =>
    \A id \in SuppliedIds :
      /\ PluginIdsOwning(id) \subseteq
           {AllRegs[i].pluginId : i \in DependingModules(id)}
      /\ (DependingPlugins(id) # {} /\ DependingModules(id) = {}) =>
           /\ epOut.error.kind = "unresolved"
           /\ id \in Range(epOut.error.values)
           /\ epOut.modules = <<>>

\* A supplied id is depended on by a plugin and by no module, and another
\* registration of the same run is a module.
C31_Witness ==
  /\ epPc = "done"
  /\ epIn.extensionPoints.present
  /\ AllFeaturesValid
  /\ \E id \in SuppliedIds :
       /\ DependingPlugins(id) # {}
       /\ DependingModules(id) = {}
       /\ id \in Range(epOut.error.values)
  /\ \E i \in DOMAIN AllRegs : AllRegs[i].type = "module"

Registered(id) ==
  {<<k, j>> \in (DOMAIN epOut.modules) \X (1..(MaxFeatures * MaxDeps)) :
     /\ j \in DOMAIN epOut.modules[k].regs[1].extensionPoints
     /\ epOut.modules[k].regs[1].extensionPoints[j].id = id}

\* C32: across all synthesized modules each supplied extension-point id is
\* registered exactly once, whatever the shape of the module dependencies,
\* including one registration that names the same extension point under two
\* dependency names.
C32_EachIdRegisteredOnce ==
  ResolveSucceeded =>
    \A id \in SuppliedIds : Cardinality(Registered(id)) = 1

FirstInvalid ==
  CHOOSE i \in InvalidPositions : \A j \in InvalidPositions : i <= j

\* C33: without the extensionPoints option the resolver returns no modules,
\* validates no feature and obtains no registrations, even from an invalid
\* feature; with the option present but empty it validates every feature in
\* order and obtains its registrations, failing at the first invalid one, and
\* synthesizes no module.
C33_AbsentSkipsEmptyStillValidates ==
  epPc = "done" =>
    /\ ~epIn.extensionPoints.present =>
         /\ epOut.error = NoError
         /\ epOut.modules = <<>>
         /\ epOut.invoked = <<>>
    /\ (epIn.extensionPoints.present /\ epIn.extensionPoints.tuples = <<>>) =>
         /\ epOut.modules = <<>>
         /\ AllFeaturesValid =>
              /\ epOut.error = NoError
              /\ epOut.invoked = [i \in DOMAIN epIn.features |-> i]
         /\ ~AllFeaturesValid =>
              /\ epOut.error.kind \in {"invalid type", "invalid version"}
              /\ epOut.invoked = [i \in 1..(FirstInvalid - 1) |-> i]

\* The option is an empty list and a valid feature comes before an invalid one.
C33_Witness ==
  /\ epPc = "done"
  /\ epIn.extensionPoints.present
  /\ epIn.extensionPoints.tuples = <<>>
  /\ InvalidPositions = {2}
  /\ epOut.invoked = <<1>>

IsPrefix(p, q) == Len(p) <= Len(q) /\ p = SubSeq(q, 1, Len(p))

\* C34: startTestBackend adds the synthesized extension-point modules first
\* and then the caller's features in the order given; backend.start() is
\* called at most once per backend, at a moment when the backend holds exactly
\* that list, and the list never changes once start() has been called or the
\* call has ended.
C34_AddsThenStartsOnce ==
  [][\A c \in Calls :
       /\ added'[c] # added[c] =>
            /\ bstate[c] = "None"
            /\ IsPrefix(added'[c], epOut'.modules \o epIn.features)
       /\ (bstate'[c] = "Starting" /\ bstate[c] # "Starting") =>
            /\ bstate[c] = "None"
            /\ added'[c] = epOut'.modules \o epIn.features]_vars

\* A backend is running with two synthesized modules ahead of the two
\* features of the caller.
C34_Witness ==
  /\ bstate[1] = "Running"
  /\ Len(epOut.modules) = 2
  /\ Len(epIn.features) = 2
  /\ added[1] = epOut.modules \o epIn.features

====
